---------------------------- MODULE Spec2Model ----------------------------
(***************************************************************************)
(* Model of mss/helpers.py: the lazy generator MSS.save and the pure       *)
(* python PNG writer MSS.to_png.                                           *)
(*                                                                         *)
(* Bytes are integers 0..255, byte strings are sequences of bytes, and     *)
(* text strings (file names) are sequences of one-character strings.       *)
(***************************************************************************)
EXTENDS Integers, Sequences, FiniteSets, TLC

(***************************************************************************)
(* Bounds of the model.                                                    *)
(***************************************************************************)
\* largest number of geometries the backend enumerates
MaxMon == 3
\* extra next() calls the consumer may issue on a finished generator
MaxExtraPulls == 1
\* largest width / height handed directly to to_png
MaxWidth == 8
MaxHeight == 2
\* a directly encoded buffer is at most this many bytes away from width*height*3
MaxDelta == 2
\* file names are computed for monitor numbers up to this one
MaxNumber == 12

(***************************************************************************)
(* Byte-string helpers.                                                    *)
(***************************************************************************)
RECURSIVE Join(_)
\* b''.join(parts)
Join(parts) ==
    IF parts = <<>> THEN <<>> ELSE Head(parts) \o Join(Tail(parts))

\* Python slice s[a:b] of a byte string, 0-based, clipped to the string
\* (a slice never raises: out-of-range bounds are clamped).
Slice(s, a, b) ==
    LET lo == IF a > Len(s) THEN Len(s) ELSE a
        hi == IF b > Len(s) THEN Len(s) ELSE b
    IN  IF hi <= lo THEN <<>> ELSE SubSeq(s, lo + 1, hi)

\* struct.pack('>I', n): four bytes, most significant first
PackI(n) ==
    << (n \div 16777216) % 256, (n \div 65536) % 256, (n \div 256) % 256, n % 256 >>

\* struct.pack('>B', n)
PackB(n) == << n % 256 >>

\* struct.pack('>8B', ...) of the PNG signature
Magic == << 137, 80, 78, 71, 13, 10, 26, 10 >>

\* the chunk markers b'IHDR', b'IDAT', b'IEND' as bytes
TagIHDR == << 73, 72, 68, 82 >>
TagIDAT == << 73, 68, 65, 84 >>
TagIEND == << 73, 69, 78, 68 >>

(***************************************************************************)
(* zlib.crc32 and zlib.compress.                                           *)
(***************************************************************************)
RECURSIVE XorBits(_, _, _)
\* bitwise exclusive or of two naturals below 2^n
XorBits(a, b, n) ==
    IF n = 0 THEN 0
    ELSE ((a + b) % 2) + 2 * XorBits(a \div 2, b \div 2, n - 1)

\* exclusive or of two 4-bit values, tabulated
XorNib == [a \in 0..15 |-> [b \in 0..15 |-> XorBits(a, b, 4)]]

\* exclusive or of two bytes
XorByte(a, b) == XorNib[a % 16][b % 16] + 16 * XorNib[a \div 16][b \div 16]

\* A 32-bit word is kept as its four bytes, most significant first (the
\* layout struct.pack('>I', word) produces).
Xor32(u, v) == [k \in 1..4 |-> XorByte(u[k], v[k])]

\* word >> 1
Shr1(u) ==
    << u[1] \div 2,
       (u[1] % 2) * 128 + u[2] \div 2,
       (u[2] % 2) * 128 + u[3] \div 2,
       (u[3] % 2) * 128 + u[4] \div 2 >>

\* word >> 8
Shr8(u) == << 0, u[1], u[2], u[3] >>

RECURSIVE CrcShift(_, _)
\* k rounds of the reflected CRC-32 shift register (polynomial EDB88320)
CrcShift(c, k) ==
    IF k = 0 THEN c
    ELSE CrcShift(IF c[4] % 2 = 1 THEN Xor32(<< 237, 184, 131, 32 >>, Shr1(c))
                                  ELSE Shr1(c),
                  k - 1)

\* the 256-entry CRC-32 table of zlib
CrcTable == [n \in 0..255 |-> CrcShift(<< 0, 0, 0, n >>, 8)]

RECURSIVE CrcUpdate(_, _)
\* the register c after the bytes (the test on c makes it a value at every
\* step rather than a growing unevaluated expression)
CrcUpdate(c, bytes) ==
    IF c = <<>> \/ bytes = <<>> THEN c
    ELSE CrcUpdate(Xor32(CrcTable[XorByte(c[4], Head(bytes))], Shr8(c)),
                   Tail(bytes))

\* pack('>I', zlib.crc32(bytes) & 0xffffffff): the unsigned 32-bit CRC of a
\* byte string, as its four big-endian bytes
Crc32(bytes) ==
    Xor32(CrcUpdate(<< 255, 255, 255, 255 >>, bytes), << 255, 255, 255, 255 >>)

RECURSIVE AdlerSum(_, _, _)
\* the two running sums of Adler-32 modulo 65521, packed big-endian
AdlerSum(bytes, a, b) ==
    IF a + b < 0 \/ bytes = <<>> THEN << b \div 256, b % 256, a \div 256, a % 256 >>
    ELSE AdlerSum(Tail(bytes), (a + Head(bytes)) % 65521,
                  (b + a + Head(bytes)) % 65521)

Adler32(bytes) == AdlerSum(bytes, 1, 0)

\* zlib.compress(raw): a zlib stream that inflates to raw.  The stream is
\* modelled with one stored deflate block: the two header bytes, the block
\* header with the length and its complement, the bytes, the Adler-32.
Compress(raw) ==
    << 120, 156, 1 >>
    \o << Len(raw) % 256, Len(raw) \div 256,
          255 - (Len(raw) % 256), 255 - (Len(raw) \div 256) >>
    \o raw
    \o Adler32(raw)

(***************************************************************************)
(* The locals MSS.to_png computes before it opens the file.                *)
(***************************************************************************)
\* line = (width * 3 + 3) & -4
Line(width) == ((width * 3 + 3) \div 4) * 4

\* padding = 0 if line % 8 == 0 else (line % 8) // 2
Padding(line) == IF line % 8 = 0 THEN 0 ELSE (line % 8) \div 2

\* png_filter + data[y * line:y * line + line - padding], for row y (0-based)
ScanRow(data, width, y) ==
    PackB(0) \o Slice(data, y * Line(width),
                      y * Line(width) + Line(width) - Padding(Line(width)))

\* scanlines = b''.join([... for y in range(height)])
Scanlines(data, width, height) ==
    Join([r \in 1..height |-> ScanRow(data, width, r - 1)])

\* pack('>2I5B', width, height, 8, 2, 0, 0, 0)
IhdrPayload(width, height) ==
    PackI(width) \o PackI(height) \o << 8, 2, 0, 0, 0 >>

\* Faulty variant of Ihdr: the checksum leaves the marker out.
IhdrCrcOfPayload(width, height) ==
    << PackI(Len(IhdrPayload(width, height))),
       TagIHDR,
       IhdrPayload(width, height),
       Crc32(IhdrPayload(width, height)) >>

\* ihdr = [size, marker, data, CRC32]
Ihdr(width, height) ==
    << PackI(Len(IhdrPayload(width, height))),
       TagIHDR,
       IhdrPayload(width, height),
       Crc32(Join(<< TagIHDR, IhdrPayload(width, height) >>)) >>

\* idat = [size, marker, compress(scanlines), CRC32]
Idat(scanlines) ==
    << PackI(Len(Compress(scanlines))),
       TagIDAT,
       Compress(scanlines),
       Crc32(Join(<< TagIDAT, Compress(scanlines) >>)) >>

\* iend = [size, marker, b'', CRC32]
Iend ==
    << PackI(Len(<<>>)), TagIEND, <<>>, Crc32(TagIEND) >>

\* the four byte strings to_png hands to fileh.write, in order
PngParts(data, width, height) ==
    << Magic,
       Join(Ihdr(width, height)),
       Join(Idat(Scanlines(data, width, height))),
       Join(Iend) >>

(***************************************************************************)
(* File names: str(i + 1), '%d' in output, output.replace('%d', ...).      *)
(***************************************************************************)
DigitChar == << "0", "1", "2", "3", "4", "5", "6", "7", "8", "9" >>

RECURSIVE Str(_)
\* str(n) for a natural number n
Str(n) ==
    IF n < 10 THEN << DigitChar[n + 1] >>
    ELSE Str(n \div 10) \o << DigitChar[(n % 10) + 1] >>

\* the placeholder '%d'
Placeholder == << "%", "d" >>

\* whether text s starts with token t
StartsWith(s, t) == Len(s) >= Len(t) /\ SubSeq(s, 1, Len(t)) = t

RECURSIVE Contains(_, _)
\* t in s
Contains(s, t) ==
    IF Len(s) < Len(t) THEN FALSE
    ELSE StartsWith(s, t) \/ Contains(Tail(s), t)

RECURSIVE Replace(_, _, _)
\* s.replace(old, new): every non-overlapping occurrence, left to right
Replace(s, old, new) ==
    IF Len(s) < Len(old) THEN s
    ELSE IF StartsWith(s, old)
         THEN new \o Replace(SubSeq(s, Len(old) + 1, Len(s)), old, new)
         ELSE << Head(s) >> \o Replace(Tail(s), old, new)

\* Faulty variant of FileName: numbers the monitors from 0.
FileNameZeroBased(output, i) ==
    IF Contains(output, Placeholder)
    THEN Replace(output, Placeholder, Str(i))
    ELSE output

\* lines 82-84: the file name of the monitor at 0-based index i
FileName(output, i) ==
    IF Contains(output, Placeholder)
    THEN Replace(output, Placeholder, Str(i + 1))
    ELSE output

\* Faulty variant of Selected: compares screen with the 0-based index.
SelectedOffByOne(screen, i) == screen <= 0 \/ (screen > 0 /\ i = screen)

\* line 81: whether the monitor at 0-based index i is processed
Selected(screen, i) == screen <= 0 \/ (screen > 0 /\ i + 1 = screen)

(***************************************************************************)
(* The collaborators of MSS.save: the platform backend behind              *)
(* enum_display_monitors / get_pixels, and the callback.                   *)
(***************************************************************************)
\* the k-th geometry (1-based) a backend enumerates
Geometry(k) ==
    [left |-> 2 * (k - 1), top |-> 0, width |-> 1 + (k % 2), height |-> 1]

\* enum_display_monitors(screen) of a backend with n geometries
BackendMonitors(n) == [k \in 1..n |-> Geometry(k)]

\* a buffer of len bytes, each byte telling its position
PixelData(len, seed) == [j \in 1..len |-> (seed + j) % 256]

\* get_pixels(monitor): width * height * 3 bytes of RGB data
BackendPixels(monitor) ==
    PixelData(monitor.width * monitor.height * 3, monitor.left)

\* the callbacks a caller passes: the default lambda *x: True, one that
\* declines every file, one that declines the names holding a "1"
Policies == { "accept_all", "reject_all", "reject_1" }

\* callback(fname)
CallbackResult(p, name) ==
    CASE p = "accept_all" -> TRUE
      [] p = "reject_all" -> FALSE
      [] p = "reject_1"   -> ~Contains(name, << "1" >>)

\* A value of the output parameter, cut into its pieces: literal text, or
\* the '%d' that stands for the monitor number.
Lit(text) == [ph |-> FALSE, text |-> text]
Num == [ph |-> TRUE, text |-> <<>>]

\* the default 'screenshot-%d.png' shortened, a name without '%d', a name
\* with '%d' twice around a lone '%'
OutputPieces ==
    { << Lit(<< "s", "-" >>), Num, Lit(<< ".", "p" >>) >>,
      << Lit(<< "s", ".", "p" >>) >>,
      << Num, Lit(<< "%" >>), Num >> }

\* the text of a pattern with `number` written where the monitor number goes
Render(pieces, number) ==
    Join([k \in 1..Len(pieces) |->
            IF pieces[k].ph THEN number ELSE pieces[k].text])

\* the values of the output parameter
Outputs == { Render(p, Placeholder) : p \in OutputPieces }

\* What goes wrong in one run: nothing, the enumeration, get_pixels of
\* monitor `at`, open() for monitor `at`, or the nth write for monitor `at`.
NoFault == [kind |-> "none", at |-> 0, nth |-> 0]

Faults(n) ==
    { NoFault, [kind |-> "enum", at |-> 0, nth |-> 0] }
    \cup { [kind |-> k, at |-> a, nth |-> 0] :
             k \in { "pixels", "open" }, a \in 1..n }
    \cup { [kind |-> "write", at |-> a, nth |-> w] : a \in 1..n, w \in 1..4 }

(***************************************************************************)
(* State.                                                                  *)
(***************************************************************************)
VARIABLES
    mode,      \* "save": a consumer iterates save(); "to_png": one call of to_png
    output,    \* save's output parameter
    screen,    \* save's screen parameter
    policy,    \* save's callback parameter
    nmon,      \* how many geometries the backend enumerates
    fault,     \* what fails in this run
    pc,        \* the line the generator (or to_png) stands at
    ctl,       \* "consumer" while the generator is suspended, else "generator"
    i,         \* the index of enumerate(), -1 before the first monitor
    monitors,  \* the enumeration save iterates over
    fname,     \* save's local fname
    frame,     \* the arguments and locals of the running to_png call
    files,     \* the file system: path -> bytes
    fileh,     \* the open file handles, as the sequence of their paths
    results,   \* what next() has given the consumer so far
    pulls,     \* how many times the consumer has called next()
    log        \* history: every call and step, in order

inputs == << mode, output, screen, policy, nmon, fault >>

vars == << mode, output, screen, policy, nmon, fault, pc, ctl, i, monitors,
           fname, frame, files, fileh, results, pulls, log >>

NoFrame ==
    [data |-> <<>>, width |-> 0, height |-> 0, output |-> <<>>,
     parts |-> <<>>, wr |-> 0]

Event(e, m, p, r) == [ev |-> e, mon |-> m, path |-> p, res |-> r]

Result(k, m, p, e) == [kind |-> k, mon |-> m, path |-> p, err |-> e]

\* the file system after open(path, 'wb'): the file exists and is empty
Truncate(fs, path) ==
    [q \in DOMAIN fs \cup { path } |-> IF q = path THEN <<>> ELSE fs[q]]

\* whether the fault of this run hits step `kind` of the current monitor
Fails(kind) == fault.kind = kind /\ fault.at = i + 1

Init ==
    /\ mode = "save"
    /\ output \in Outputs
    /\ screen \in -1..(MaxMon + 1)
    /\ policy \in Policies
    /\ nmon \in 0..MaxMon
    /\ fault \in Faults(nmon)
    /\ pc = "start"
    /\ ctl = "consumer"
    /\ i = -1
    /\ monitors = <<>>
    /\ fname = <<>>
    /\ frame = NoFrame
    /\ files = <<>>
    /\ fileh = <<>>
    /\ results = <<>>
    /\ pulls = 0
    /\ log = <<>>

(***************************************************************************)
(* The consumer of the generator.                                          *)
(***************************************************************************)
Terminated == pc \in { "done", "raised" }

\* next() calls issued after the generator had ended
ExtraPulls ==
    Cardinality({ j \in 1..Len(results) : results[j].kind = "stop" })
    - (IF pc = "done" THEN 1 ELSE 0)

\* next(gen): resumes the generator where it is suspended; on a generator
\* that has ended it raises StopIteration at once
Pull ==
    /\ mode = "save"
    /\ ctl = "consumer"
    /\ pulls' = pulls + 1
    /\ log' = Append(log, Event("pull", 0, <<>>, TRUE))
    /\ IF Terminated
       THEN /\ ExtraPulls < MaxExtraPulls
            /\ results' = Append(results, Result("stop", 0, <<>>, ""))
            /\ UNCHANGED << pc, ctl >>
       ELSE /\ ctl' = "generator"
            /\ pc' = IF pc = "start" THEN "enum" ELSE "for"
            /\ UNCHANGED results
    /\ UNCHANGED << inputs, i, monitors, fname, frame, files, fileh >>

\* Faulty variant of Raise: the error is handed over but the generator
\* stays alive and goes on with the next monitor at the next pull.
RaiseAndContinue(err) ==
    /\ pc' = "for"
    /\ ctl' = "consumer"
    /\ results' = Append(results, Result("error", i + 1, <<>>, err))
    /\ log' = Append(log, Event("raise", i + 1, <<>>, TRUE))

\* an exception leaves the generator (or to_png): the caller gets it and
\* the generator is finished
Raise(err) ==
    /\ pc' = "raised"
    /\ ctl' = "consumer"
    /\ results' = Append(results, Result("error", i + 1, <<>>, err))
    /\ log' = Append(log, Event("raise", i + 1, <<>>, TRUE))

(***************************************************************************)
(* MSS.save, lines 80-90.                                                  *)
(***************************************************************************)
\* line 80, first entry: self.enum_display_monitors(screen)
Enum ==
    /\ ctl = "generator" /\ pc = "enum"
    /\ IF fault.kind = "enum"
       THEN /\ Raise("CaptureError")
            /\ UNCHANGED monitors
       ELSE /\ monitors' = BackendMonitors(nmon)
            /\ pc' = "for"
            /\ log' = Append(log, Event("enum", 0, <<>>, TRUE))
            /\ UNCHANGED << ctl, results >>
    /\ UNCHANGED << inputs, i, fname, frame, files, fileh, pulls >>

\* line 80: the for statement takes the next (i, monitor) or ends the generator
For ==
    /\ ctl = "generator" /\ pc = "for"
    /\ IF i + 1 < Len(monitors)
       THEN /\ i' = i + 1
            /\ pc' = "if"
            /\ UNCHANGED << ctl, results >>
       ELSE /\ pc' = "done"
            /\ ctl' = "consumer"
            /\ results' = Append(results, Result("stop", 0, <<>>, ""))
            /\ UNCHANGED i
    /\ UNCHANGED << inputs, monitors, fname, frame, files, fileh, pulls, log >>

\* line 81
If ==
    /\ ctl = "generator" /\ pc = "if"
    /\ pc' = IF Selected(screen, i) THEN "fname" ELSE "for"
    /\ UNCHANGED << inputs, ctl, i, monitors, fname, frame, files, fileh,
                    results, pulls, log >>

\* Faulty variant of Fname: goes on to get_pixels without calling callback.
FnameSkipCallback ==
    /\ ctl = "generator" /\ pc = "fname"
    /\ fname' = FileName(output, i)
    /\ pc' = "get_pixels"
    /\ UNCHANGED << inputs, ctl, i, monitors, frame, files, fileh, results,
                    pulls, log >>

\* lines 82-84
Fname ==
    /\ ctl = "generator" /\ pc = "fname"
    /\ fname' = FileName(output, i)
    /\ pc' = "callback"
    /\ UNCHANGED << inputs, ctl, i, monitors, frame, files, fileh, results,
                    pulls, log >>

\* line 85: callback(fname); what it returns is dropped
Callback ==
    /\ ctl = "generator" /\ pc = "callback"
    /\ log' = Append(log, Event("policy", i + 1, fname,
                                CallbackResult(policy, fname)))
    /\ pc' = "get_pixels"
    /\ UNCHANGED << inputs, ctl, i, monitors, fname, frame, files, fileh,
                    results, pulls >>

\* lines 86-89: the arguments of to_png, get_pixels(monitor) among them
GetPixels ==
    /\ ctl = "generator" /\ pc = "get_pixels"
    /\ IF Fails("pixels")
       THEN /\ Raise("CaptureError")
            /\ UNCHANGED frame
       ELSE /\ frame' = [data   |-> BackendPixels(monitors[i + 1]),
                         width  |-> monitors[i + 1].width,
                         height |-> monitors[i + 1].height,
                         output |-> fname,
                         parts  |-> <<>>,
                         wr     |-> 0]
            /\ pc' = "to_png"
            /\ log' = Append(log, Event("pixels", i + 1, fname, TRUE))
            /\ UNCHANGED << ctl, results >>
    /\ UNCHANGED << inputs, i, monitors, fname, files, fileh, pulls >>

(***************************************************************************)
(* MSS.to_png, lines 100-131.                                              *)
(***************************************************************************)
\* lines 100-124: scanlines, magic, ihdr, idat, iend
Encode ==
    /\ ctl = "generator" /\ pc = "to_png"
    /\ frame' = [frame EXCEPT
                   !.parts = PngParts(frame.data, frame.width, frame.height)]
    /\ pc' = "open"
    /\ log' = Append(log, Event("encode", i + 1, frame.output, TRUE))
    /\ UNCHANGED << inputs, ctl, i, monitors, fname, files, fileh, results,
                    pulls >>

\* line 126: open(output, 'wb')
Open ==
    /\ ctl = "generator" /\ pc = "open"
    /\ IF Fails("open")
       THEN /\ Raise("IOError")
            /\ UNCHANGED << files, fileh >>
       ELSE /\ files' = Truncate(files, frame.output)
            /\ fileh' = Append(fileh, frame.output)
            /\ pc' = "write"
            /\ log' = Append(log, Event("open", i + 1, frame.output, TRUE))
            /\ UNCHANGED << ctl, results >>
    /\ UNCHANGED << inputs, i, monitors, fname, frame, pulls >>

\* Faulty variant of Write: no with statement, so a failed write leaves
\* the handle open.
WriteNoWith ==
    /\ ctl = "generator" /\ pc = "write"
    /\ IF Fails("write") /\ fault.nth = frame.wr + 1
       THEN /\ Raise("IOError")
            /\ UNCHANGED << files, frame, fileh >>
       ELSE /\ files' = [files EXCEPT
                           ![frame.output] = @ \o frame.parts[frame.wr + 1]]
            /\ frame' = [frame EXCEPT !.wr = @ + 1]
            /\ pc' = IF frame.wr + 1 = Len(frame.parts) THEN "return"
                                                         ELSE "write"
            /\ log' = Append(log, Event("write", i + 1, frame.output, TRUE))
            /\ UNCHANGED << ctl, results, fileh >>
    /\ UNCHANGED << inputs, i, monitors, fname, pulls >>

\* lines 127-130: the next fileh.write; an exception leaves the with
\* statement, which closes the handle
Write ==
    /\ ctl = "generator" /\ pc = "write"
    /\ IF Fails("write") /\ fault.nth = frame.wr + 1
       THEN /\ Raise("IOError")
            /\ fileh' = SubSeq(fileh, 1, Len(fileh) - 1)
            /\ UNCHANGED << files, frame >>
       ELSE /\ files' = [files EXCEPT
                           ![frame.output] = @ \o frame.parts[frame.wr + 1]]
            /\ frame' = [frame EXCEPT !.wr = @ + 1]
            /\ pc' = IF frame.wr + 1 = Len(frame.parts) THEN "return"
                                                         ELSE "write"
            /\ log' = Append(log, Event("write", i + 1, frame.output, TRUE))
            /\ UNCHANGED << ctl, results, fileh >>
    /\ UNCHANGED << inputs, i, monitors, fname, pulls >>

\* line 131: return out of the with statement, which closes the handle
\* (lines 133-134 after it are never reached: the with body always returns
\* or raises)
Return ==
    /\ ctl = "generator" /\ pc = "return"
    /\ fileh' = SubSeq(fileh, 1, Len(fileh) - 1)
    /\ pc' = IF mode = "save" THEN "yield" ELSE "returned"
    /\ log' = Append(log, Event("close", i + 1, frame.output, TRUE))
    /\ UNCHANGED << inputs, ctl, i, monitors, fname, frame, files, results,
                    pulls >>

\* Faulty variant of Yield: the name is collected and the loop goes on
\* without suspending (a function filling a list instead of a generator).
YieldEager ==
    /\ ctl = "generator" /\ pc = "yield"
    /\ results' = Append(results, Result("path", i + 1, fname, ""))
    /\ pc' = "for"
    /\ log' = Append(log, Event("yield", i + 1, fname, TRUE))
    /\ UNCHANGED << inputs, ctl, i, monitors, fname, frame, files, fileh,
                    pulls >>

\* line 90: yield fname
Yield ==
    /\ ctl = "generator" /\ pc = "yield"
    /\ results' = Append(results, Result("path", i + 1, fname, ""))
    /\ ctl' = "consumer"
    /\ pc' = "yielded"
    /\ log' = Append(log, Event("yield", i + 1, fname, TRUE))
    /\ UNCHANGED << inputs, i, monitors, fname, frame, files, fileh, pulls >>

Next ==
    \/ Pull
    \/ Enum
    \/ For
    \/ If
    \/ Fname
    \/ Callback
    \/ GetPixels
    \/ Encode
    \/ Open
    \/ Write
    \/ Return
    \/ Yield

Spec == Init /\ [][Next]_vars

(***************************************************************************)
(* One call of to_png on an arbitrary buffer.                              *)
(***************************************************************************)
\* what can fail inside to_png
EncFaults ==
    { NoFault, [kind |-> "open", at |-> 0, nth |-> 0] }
    \cup { [kind |-> "write", at |-> 0, nth |-> w] : w \in 1..4 }

\* the byte lengths tried for a width x height buffer
BufferLengths(width, height) ==
    { n \in (width * height * 3 - MaxDelta)..(width * height * 3 + MaxDelta) :
        n >= 0 }
    \cup { Line(width) * height }

InitEnc ==
    /\ mode = "to_png"
    /\ output = << "o" >>
    /\ screen = 0
    /\ policy = "accept_all"
    /\ nmon = 0
    /\ fault \in EncFaults
    /\ pc = "to_png"
    /\ ctl = "generator"
    /\ i = -1
    /\ monitors = <<>>
    /\ fname = <<>>
    /\ \E w \in 1..MaxWidth, h \in 1..MaxHeight :
         \E n \in BufferLengths(w, h), seed \in { 0, 250 } :
           frame = [data |-> PixelData(n, seed), width |-> w, height |-> h,
                    output |-> << "o" >>, parts |-> <<>>, wr |-> 0]
    /\ files = <<>>
    /\ fileh = <<>>
    /\ results = <<>>
    /\ pulls = 0
    /\ log = <<>>

NextEnc ==
    \/ Encode
    \/ Open
    \/ Write
    \/ Return

SpecEnc == InitEnc /\ [][NextEnc]_vars

(***************************************************************************)
(* Properties.                                                             *)
(***************************************************************************)
\* the positions of the log holding event e of monitor m (1-based number)
EvIdx(e, m) == { j \in 1..Len(log) : log[j].ev = e /\ log[j].mon = m }

Count(e, m) == Cardinality(EvIdx(e, m))

\* the events that belong to the processing of one monitor
MonitorEvents ==
    { "policy", "pixels", "encode", "open", "write", "close", "yield" }

\* the selection rule as the documentation of save states it, for the
\* 1-based monitor number m
DocSelected(m) == screen <= 0 \/ m = screen

\* the monitor numbers of the paths handed to the consumer, in order
YieldedMons ==
    LET paths == SelectSeq(results, LAMBDA r : r.kind = "path")
    IN  [j \in 1..Len(paths) |-> paths[j].mon]

\* the decimal text of a number below 100
Decimal(n) ==
    IF n < 10 THEN << DigitChar[n + 1] >>
    ELSE << DigitChar[(n \div 10) + 1], DigitChar[(n % 10) + 1] >>

----------------------------------------------------------------------------
\* C1: a monitor whose file name the callback declines (returns false for)
\* is skipped: after that answer there is no get_pixels, no open or write
\* and no yield for it, and when the generator has run to its end the
\* yielded monitors are exactly the selected ones the callback accepted.
C1_RejectedSkipped ==
    /\ \A j \in 1..Len(log) :
         (log[j].ev = "policy" /\ ~log[j].res)
         => \A k \in (j + 1)..Len(log) :
              log[k].mon = log[j].mon
              => log[k].ev \notin { "pixels", "open", "write", "yield" }
    /\ pc = "done"
       => { YieldedMons[j] : j \in 1..Len(YieldedMons) }
          = { m \in 1..nmon :
                DocSelected(m)
                /\ CallbackResult(policy, FileName(output, m - 1)) }

----------------------------------------------------------------------------
\* C2: with the accept-all callback, the monitor at 0-based index i is
\* processed iff screen <= 0 or i + 1 = screen: only such monitors are ever
\* asked about, captured, written or yielded, none more than once, and every
\* such monitor the loop has passed (all of them once the generator is
\* done) has been captured, written and yielded exactly once.
C2_Selection ==
    policy = "accept_all"
    => /\ \A j \in 1..Len(log) :
            log[j].ev \in MonitorEvents
            => log[j].mon \in 1..nmon /\ DocSelected(log[j].mon)
       /\ \A m \in 1..nmon :
            Count("pixels", m) <= 1 /\ Count("close", m) <= 1
            /\ Count("yield", m) <= 1
       /\ \A m \in 1..nmon :
            (pc # "raised" /\ DocSelected(m)
             /\ (m <= i \/ pc = "done" \/ (m = i + 1 /\ pc = "yielded")))
            => Count("pixels", m) = 1 /\ Count("close", m) = 1
               /\ Count("yield", m) = 1
       /\ (pc = "done" /\ screen > nmon) => YieldedMons = <<>>

\* three monitors, screen = 2, run to the end: only monitor 2 was yielded
C2_Witness ==
    /\ policy = "accept_all" /\ pc = "done"
    /\ nmon = 3 /\ screen = 2
    /\ YieldedMons = << 2 >>
    /\ Count("pixels", 2) = 1 /\ Count("pixels", 1) = 0

----------------------------------------------------------------------------
----------------------------------------------------------------------------
\* the log without the consumer's own next() calls
WorkLog == SelectSeq(log, LAMBDA e : e.ev # "pull")

CountAll(e) == Cardinality({ j \in 1..Len(log) : log[j].ev = e })

C4_State ==
    /\ pulls = 0 => (WorkLog = <<>> /\ files = <<>> /\ monitors = <<>>)
    /\ CountAll("enum") <= pulls
    /\ CountAll("policy") <= pulls
    /\ CountAll("pixels") <= pulls
    /\ CountAll("encode") <= pulls
    /\ CountAll("close") <= pulls

C4_Step ==
    ctl = "consumer"
    => (WorkLog' = WorkLog /\ files' = files /\ fileh' = fileh
        /\ monitors' = monitors)

\* C4: save works only when pulled.  Before the first next() there has been
\* no backend call, no callback call and no write; the monitors asked
\* about, captured, encoded and written never outnumber the pulls; and
\* while the generator is suspended or ended no step of it happens, so a
\* consumer that stops pulling stops all work.
C4_Lazy == [] C4_State /\ [][C4_Step]_vars

\* the consumer took one path of three and has not pulled again
C4_Witness ==
    /\ nmon = 3 /\ screen = 0 /\ pulls = 1
    /\ pc = "yielded" /\ ctl = "consumer"
    /\ CountAll("pixels") = 1 /\ CountAll("close") = 1

----------------------------------------------------------------------------
\* C5: to_png on a buffer whose length is not width * height * 3 ends with
\* an error and produces nothing: it never returns normally and no file is
\* created.
C5_BadLengthRejected ==
    (mode = "to_png" /\ Len(frame.data) # frame.width * frame.height * 3)
    => (pc # "returned" /\ DOMAIN files = {})

----------------------------------------------------------------------------
\* the bytes after the 8-byte chunk header and before the 4-byte checksum
ChunkPayload(chunk) == SubSeq(chunk, 9, Len(chunk) - 4)

\* the bytes a stored zlib stream inflates to
Inflate(z) == SubSeq(z, 8, Len(z) - 4)

\* row y (0-based) of a width-pixel RGB buffer
PixelRow(data, width, y) == SubSeq(data, y * width * 3 + 1, (y + 1) * width * 3)

\* C6: for a buffer of exactly width * height * 3 bytes, the scanline stream
\* the encoder compresses is `height` rows, row y being the filter byte 0
\* followed by the width * 3 bytes data[y*width*3 .. (y+1)*width*3).
C6_ScanlinesRoundTrip ==
    (mode = "to_png" /\ frame.parts # <<>>
     /\ Len(frame.data) = frame.width * frame.height * 3)
    => Inflate(ChunkPayload(frame.parts[3]))
       = Join([r \in 1..frame.height |->
                 << 0 >> \o PixelRow(frame.data, frame.width, r - 1)])

----------------------------------------------------------------------------
\* the number four big-endian bytes stand for
Be32(b) == ((b[1] * 256 + b[2]) * 256 + b[3]) * 256 + b[4]

BadChunk == [len |-> -1, type |-> <<>>, payload |-> <<>>, crc |-> <<>>]

RECURSIVE ParseChunks(_)
\* a decoder's reading of a chunk stream: length, type, payload of that
\* length, checksum, and again until the bytes end
ParseChunks(bytes) ==
    IF bytes = <<>> THEN <<>>
    ELSE IF Len(bytes) < 12 \/ Len(bytes) < 12 + Be32(SubSeq(bytes, 1, 4))
         THEN << BadChunk >>
         ELSE LET n == Be32(SubSeq(bytes, 1, 4))
              IN  << [len     |-> n,
                      type    |-> SubSeq(bytes, 5, 8),
                      payload |-> SubSeq(bytes, 9, 8 + n),
                      crc     |-> SubSeq(bytes, 9 + n, 12 + n)] >>
                  \o ParseChunks(SubSeq(bytes, 13 + n, Len(bytes)))

\* C7: the file to_png has written is the signature 89 50 4E 47 0D 0A 1A 0A
\* followed by exactly three chunks IHDR, IDAT, IEND, each framed as
\* length, type, payload, checksum with the length that of the payload and
\* the checksum the CRC-32 of type and payload; the IHDR payload is width,
\* height, 8, 2, 0, 0, 0 and the IEND payload is empty.
C7_Framing ==
    (mode = "to_png" /\ pc = "returned")
    => LET f == files[frame.output]
           chunks == ParseChunks(SubSeq(f, 9, Len(f)))
       IN  /\ Len(f) >= 8
           /\ SubSeq(f, 1, 8) = << 137, 80, 78, 71, 13, 10, 26, 10 >>
           /\ Len(chunks) = 3
           /\ chunks[1].type = << 73, 72, 68, 82 >>
           /\ chunks[2].type = << 73, 68, 65, 84 >>
           /\ chunks[3].type = << 73, 69, 78, 68 >>
           /\ \A k \in 1..3 :
                /\ chunks[k].len = Len(chunks[k].payload)
                /\ chunks[k].crc = Crc32(chunks[k].type \o chunks[k].payload)
           /\ Len(chunks[1].payload) = 13
           /\ Be32(SubSeq(chunks[1].payload, 1, 4)) = frame.width
           /\ Be32(SubSeq(chunks[1].payload, 5, 8)) = frame.height
           /\ SubSeq(chunks[1].payload, 9, 13) = << 8, 2, 0, 0, 0 >>
           /\ chunks[3].payload = <<>>

\* a 2x2 buffer of 12 bytes has been written out
C7_Witness ==
    /\ mode = "to_png" /\ pc = "returned"
    /\ frame.width = 2 /\ frame.height = 2 /\ Len(frame.data) = 12
    /\ Len(files[frame.output]) > 8

----------------------------------------------------------------------------
\* the pieces of the output parameter of this run
PiecesOf(out) == CHOOSE p \in OutputPieces : Render(p, Placeholder) = out

HasNum(pieces) == \E k \in 1..Len(pieces) : pieces[k].ph

\* C8: the yielded paths come in enumeration order; the path of the monitor
\* at 0-based index i is the output pattern with each '%d' replaced by the
\* decimal number i + 1, so different monitors get different paths when the
\* pattern holds '%d', and the pattern itself when it holds none; that path
\* is the file that was written.  The naming is also checked for every
\* monitor number up to MaxNumber.
C8_Paths ==
    /\ \A j \in 1..Len(results) :
         results[j].kind = "path"
         => /\ results[j].path = Render(PiecesOf(output), Decimal(results[j].mon))
            /\ ~HasNum(PiecesOf(output)) => results[j].path = output
            /\ results[j].path \in DOMAIN files
            /\ \E k \in EvIdx("open", results[j].mon) :
                 log[k].path = results[j].path
    /\ \A j, k \in 1..Len(results) :
         (j < k /\ results[j].kind = "path" /\ results[k].kind = "path")
         => /\ results[j].mon < results[k].mon
            /\ HasNum(PiecesOf(output)) => results[j].path # results[k].path
    /\ \A p \in OutputPieces, n \in 1..MaxNumber :
         FileName(Render(p, Placeholder), n - 1) = Render(p, Decimal(n))

\* monitors 1 and 2 yielded under the pattern s-%d.p
C8_Witness ==
    /\ Len(results) = 2
    /\ results[1].kind = "path" /\ results[2].kind = "path"
    /\ results[1].path = << "s", "-", "1", ".", "p" >>
    /\ results[2].path = << "s", "-", "2", ".", "p" >>

----------------------------------------------------------------------------
\* the steps of one monitor, in the order of the code
FullRun ==
    << "policy", "pixels", "encode", "open", "write", "write", "write",
       "write", "close", "yield" >>

\* what the log holds for monitor m
RunOf(m) == SelectSeq(log, LAMBDA e : e.mon = m /\ e.ev # "raise")

IsPrefix(s, t) == Len(s) <= Len(t) /\ s = SubSeq(t, 1, Len(s))

----------------------------------------------------------------------------
\* C10: no file handle outlives the step that opened it: never more than
\* one is open, one is open only while to_png is between open() and its
\* return, and none is open whenever the generator is suspended at a
\* yield, has finished or has raised (a failed write included).
C10_ScopedHandle ==
    /\ Len(fileh) <= 1
    /\ fileh # <<>>
       => (ctl = "generator" /\ pc \in { "write", "return" }
           /\ fileh = << frame.output >>)
    /\ ctl = "consumer" => fileh = <<>>
    /\ pc \in { "yielded", "done", "raised" } => fileh = <<>>

\* a write failed after the file had been opened and partly written
C10_Witness ==
    /\ pc = "raised" /\ fault.kind = "write" /\ fault.nth = 3
    /\ results[Len(results)].err = "IOError"
    /\ Count("open", fault.at) = 1 /\ Count("write", fault.at) = 2
    /\ fileh = <<>>

=============================================================================
